---------------------------- MODULE Spec2Model ----------------------------
(***************************************************************************)
(* A model of the filesystem indexer (src/indexer/indexer.py): the         *)
(* exclusion matcher, the tree scanner, the batching orchestrator, its     *)
(* retried engine calls and the deletion sweep, run as main() runs them,   *)
(* against a small filesystem, a wall clock and a search engine that may   *)
(* fail any call.                                                          *)
(*                                                                         *)
(* Strings the code matches or splits are sequences of one-character       *)
(* strings, so that fnmatch, split, join and relpath are computed.         *)
(***************************************************************************)
EXTENDS Integers, Sequences, FiniteSets, TLC

(***************************************************************************)
(* Bounds of the model and the configuration of the modelled process.      *)
(***************************************************************************)
\* How many times the environment may act: the clock advancing by a second, a
\* file being removed or modified, a filesystem call raising OSError.
MaxEnvSteps == 2

\* Config.batch_size (BATCH_SIZE), chosen small.
BatchSize == 2

\* Config.stability_sec (STABILITY_SEC), chosen small.
StabilitySec == 1

\* stop_after_attempt(3) of both retry decorators.
MaxAttempts == 3

\* run() is called again on an indexer object only while the object has counted
\* fewer than this many files (scanned or skipped).
MaxCounted == 6

\* wait_for_task(timeout=...), in half seconds.
WaitTimeout == 4

\* Config.root_name (ROOT_NAME).
root_name == "data"

\* The root name another indexer instance writes its documents under.
OtherRoot == "other"

\* The device the scanned trees live on, and the device of another instance's files.
Dev == 1

OtherDev == 2

(***************************************************************************)
(* Paths of the modelled tree.                                             *)
(***************************************************************************)
Slash == "/"

P_data == <<"/", "d">>

P_mnt == <<"/", "m">>

N_a == <<"a", ".", "t">>

N_b == <<"b", ".", "l">>

N_sub == <<"s">>

N_c == <<"c", ".", "p">>

N_d == <<"d", ".", "t">>

N_git == <<".", "g">>

N_h == <<"h", ".", "t">>

N_obj == <<"o">>

N_empty == <<"e">>

N_link == <<"k">>

\* The name a.t is renamed to.
N_r == <<"r", ".", "t">>

\* Config.scan_roots (SCAN_ROOTS), in their configured order.
scan_roots == <<P_data, P_mnt>>

\* The patterns _load_excludes read from the excludes file.
excludes == <<<<"*", ".", "l">>, <<".", "g">>>>

(***************************************************************************)
(* Text helpers: str.split, str.join, fnmatch.fnmatch, os.path.join,       *)
(* os.path.relpath.                                                        *)
(***************************************************************************)
RECURSIVE Split(_, _)
\* path.split(sep): the pieces between the separators ("" gives [""]).
Split(s, sep) ==
    IF \A i \in 1..Len(s) : s[i] # sep
    THEN <<s>>
    ELSE LET k == CHOOSE i \in 1..Len(s) :
                      s[i] = sep /\ \A j \in 1..(i - 1) : s[j] # sep
         IN <<SubSeq(s, 1, k - 1)>> \o Split(SubSeq(s, k + 1, Len(s)), sep)

RECURSIVE Join(_, _)
\* sep.join(parts)
Join(parts, sep) ==
    IF Len(parts) = 0 THEN <<>>
    ELSE IF Len(parts) = 1 THEN parts[1]
    ELSE parts[1] \o <<sep>> \o Join(Tail(parts), sep)

RECURSIVE Fnmatch(_, _)
\* fnmatch.fnmatch(name, pat) on POSIX for patterns of literals, * and ?:
\* the whole name must match, * matches any run of characters, also "/".
Fnmatch(name, pat) ==
    IF Len(pat) = 0 THEN Len(name) = 0
    ELSE IF Head(pat) = "*"
         THEN Fnmatch(name, Tail(pat))
              \/ (Len(name) > 0 /\ Fnmatch(Tail(name), pat))
    ELSE IF Len(name) = 0 THEN FALSE
    ELSE IF Head(pat) = "?" THEN Fnmatch(Tail(name), Tail(pat))
    ELSE Head(name) = Head(pat) /\ Fnmatch(Tail(name), Tail(pat))

\* A faulty variant of IsExcludedBy: the ancestor prefixes are not tried.
IsExcludedByWholePathOnly(path, pats) ==
    \E p \in 1..Len(pats) : Fnmatch(path, pats[p])

\* FileIndexer._is_excluded against the pattern list pats.
IsExcludedBy(path, pats) ==
    \E p \in 1..Len(pats) :
        \/ Fnmatch(path, pats[p])
        \/ LET parts == Split(path, Slash)
           IN \E i \in 1..(Len(parts) - 1) :
                  Fnmatch(Join(SubSeq(parts, 1, i), Slash) \o <<Slash>>, pats[p])

\* FileIndexer._is_excluded
_is_excluded(path) == IsExcludedBy(path, excludes)

\* os.path.join(dir, name) for a relative name.
PathJoin(dir, name) ==
    IF Len(dir) > 0 /\ dir[Len(dir)] = Slash THEN dir \o name
    ELSE dir \o <<Slash>> \o name

\* os.path.relpath(path, root) for a path at or below root.
RelPath(path, root) ==
    IF path = root THEN <<".">> ELSE SubSeq(path, Len(root) + 2, Len(path))

\* FileIndexer._compute_file_id: the digest of the text "dev:ino", which the pair
\* (dev, ino) determines and which distinguishes the pairs of the model.
_compute_file_id(dev, ino) == <<dev, ino>>

(***************************************************************************)
(* The filesystem.  A node is one directory entry: the directory that      *)
(* holds it, its name, its kind, its inode and its modification time.      *)
(***************************************************************************)
Node(dir, name, kind, ino) ==
    [dir |-> dir, name |-> name, kind |-> kind, ino |-> ino, mtime |-> 0]

\* /d holds a.t, b.l (excluded by *.l) and the directory s, which holds c.p.
DataTree ==
    { Node(<<Slash>>, <<"d">>, "dir", 10),
      Node(P_data, N_a, "file", 1),
      Node(P_data, N_b, "file", 2),
      Node(P_data, N_sub, "dir", 11),
      Node(PathJoin(P_data, N_sub), N_c, "file", 3) }

\* /m holds d.t, the symbolic link k and the directory .g (excluded by the bare
\* name .g), which holds h.t and the directory o, and the empty directory e.
MntTree ==
    { Node(<<Slash>>, <<"m">>, "dir", 12),
      Node(P_mnt, N_d, "file", 4),
      Node(P_mnt, N_link, "link", 6),
      Node(P_mnt, N_git, "dir", 13),
      Node(PathJoin(P_mnt, N_git), N_h, "file", 5),
      Node(PathJoin(P_mnt, N_git), N_obj, "dir", 14),
      Node(P_mnt, N_empty, "dir", 15) }

NodePath(n) == PathJoin(n.dir, n.name)

\* os.path.exists(path)
Exists(tree, path) == \E n \in tree : NodePath(n) = path

\* A faulty variant of Scandir: a symbolic link is reported as a directory.
ScandirLinksAsDirs(tree, dir) ==
    { [path |-> NodePath(n), name |-> n.name,
       kind |-> IF n.kind = "link" THEN "dir" ELSE n.kind] :
          n \in { m \in tree : m.dir = dir } }

\* A faulty variant of Scandir: a symbolic link is reported as a regular file.
ScandirFollowingLinks(tree, dir) ==
    { [path |-> NodePath(n), name |-> n.name,
       kind |-> IF n.kind = "link" THEN "file" ELSE n.kind] :
          n \in { m \in tree : m.dir = dir } }

\* os.scandir(dir): the entries of dir, each with its path, name and cached kind.
Scandir(tree, dir) ==
    { [path |-> NodePath(n), name |-> n.name, kind |-> n.kind] :
          n \in { m \in tree : m.dir = dir } }

\* entry.stat(follow_symlinks=False): the node now at the entry's path, if any.
StatOf(tree, path) == { n \in tree : NodePath(n) = path }

(***************************************************************************)
(* The decisions of the scanner and of the orchestrator.                   *)
(***************************************************************************)
\* A faulty variant of Unstable: a file exactly as old as the window is skipped.
UnstableAtWindow(tnow, mtime) == tnow - mtime <= StabilitySec

\* The stability filter: now - stat.st_mtime < self.config.stability_sec
Unstable(tnow, mtime) == tnow - mtime < StabilitySec

\* A faulty variant of Row: the record stamped with the file's mtime.
RowStampedWithMtime(path, st, sid) ==
    [id |-> _compute_file_id(Dev, st.ino), root |-> root_name,
     path |-> path, seen_at |-> st.mtime]

\* A faulty variant of Row: the document id derived from the path as well.
RowIdFromPath(path, st, sid) ==
    [id |-> _compute_file_id(Dev, st.ino + Len(path)), root |-> root_name,
     path |-> path, seen_at |-> sid]

\* The record the scanner yields (of its twelve fields: id, root, path, seen_at).
Row(path, st, sid) ==
    [id |-> _compute_file_id(Dev, st.ino), root |-> root_name,
     path |-> path, seen_at |-> sid]

\* A faulty variant of SkipDir: excluded directories are entered.
SkipDirNever(rel_dir) == FALSE

\* rel_dir != "." and self._is_excluded(rel_dir): the popped directory is skipped.
SkipDir(rel_dir) == rel_dir # <<".">> /\ _is_excluded(rel_dir)

\* A faulty variant of AfterEntryError: the error ends the run.
AfterEntryErrorAborts(p) == "error"

\* except (OSError, IOError) inside the loop over entries: continue.
AfterEntryError(p) == p

\* A faulty variant of AfterSchemaCall: a failed schema call ends the process.
AfterSchemaCallFatal(ok) == IF ok THEN "ready" ELSE "error"

\* _ensure_table_exists logs a non-200 answer or an exception and returns:
\* __init__ completes either way.
AfterSchemaCall(ok) == "ready"

\* A faulty variant of AfterMissingRoot: a missing root ends the run.
AfterMissingRootAborts(p) == "error"

\* if not os.path.exists(root_dir): ... return -- the generator yields nothing
\* and run() goes on with the next root.
AfterMissingRoot(p) == p

\* A faulty variant of AfterDirError: the error ends the run.
AfterDirErrorAborts(p) == "error"

\* except (OSError, IOError) around os.scandir: continue with the next directory.
AfterDirError(p) == p

\* scan_id = int(time.time())
NewScanId(t) == t

\* A faulty variant of FlushDue: the flush one record late.
FlushLate(b) == Len(b) > BatchSize

\* len(batch) >= self.config.batch_size
FlushDue(b) == Len(b) >= BatchSize

\* A faulty variant of AfterScan: the final partial batch is not flushed.
AfterScanNoFinalFlush(b) == "sweep"

\* A faulty variant of AfterScan: with nothing left to flush the sweep is skipped.
AfterScanSkipSweep(b) == IF Len(b) > 0 THEN "final" ELSE "done"

\* A faulty variant of AfterScan: the rest is flushed even when it is empty.
AfterScanFlushesEmpty(b) == "final"

\* "if batch:" after the last root: the stage that follows the scan.
AfterScan(b) == IF Len(b) > 0 THEN "final" ELSE "sweep"

\* A faulty variant of AfterUpsert: every attempt the engine applied is counted,
\* acknowledged or not.
AfterUpsertCountsApplied(s, rows, outcome) ==
    IF outcome = "fail" THEN s ELSE [s EXCEPT !.files_indexed = @ + Len(rows)]

\* The counters after one attempt of _bulk_upsert(rows): files_indexed grows
\* when the answer is 200, and only then.
AfterUpsert(s, rows, outcome) ==
    IF outcome = "ok" THEN [s EXCEPT !.files_indexed = @ + Len(rows)] ELSE s

\* A faulty variant of StopAfterAttempt: two attempts more.
StopAfterFiveAttempts(n) == n >= MaxAttempts + 2

\* A faulty variant of StopAfterAttempt: one attempt more.
StopAfterFourAttempts(n) == n >= MaxAttempts + 1

\* stop_after_attempt(3): whether the attempt just failed was the last.
StopAfterAttempt(n) == n >= MaxAttempts

\* A faulty variant of AfterFailure: the failure of the sweep is swallowed.
AfterFailureSweepSwallowed(n, p) ==
    IF n >= MaxAttempts THEN (IF p = "sweep" THEN "done" ELSE "error") ELSE p

\* The stage after the n-th failed attempt of the engine call of stage p: the
\* retry wrapper calls again, or raises and run() is left with the exception.
AfterFailure(n, p) == IF StopAfterAttempt(n) THEN "error" ELSE p

\* A faulty variant of Replace: a document with a later seen_at is not replaced.
ReplaceUnlessNewer(D, rows) ==
    LET fresh(r) == \A d \in D : d.id = r.id => d.seen_at <= r.seen_at
        news == { rows[i] : i \in { j \in 1..Len(rows) : fresh(rows[j]) } }
    IN { d \in D : \A r \in news : r.id # d.id } \cup news

\* REPLACE INTO files ... VALUES rows: each row replaces the document of its id.
Replace(D, rows) ==
    LET ids == { rows[i].id : i \in 1..Len(rows) }
        last(id) == CHOOSE i \in 1..Len(rows) :
                        rows[i].id = id /\ \A j \in (i + 1)..Len(rows) : rows[j].id # id
    IN { d \in D : d.id \notin ids } \cup { rows[last(id)] : id \in ids }

\* Faulty variants of DeleteWhere: seen_at <= sid, and no filter on the root.
DeleteWhereUpTo(D, root, sid) == { d \in D : ~(d.root = root /\ d.seen_at <= sid) }

DeleteWhereAnyRoot(D, root, sid) == { d \in D : ~(d.seen_at < sid) }

\* DELETE FROM files WHERE root='<root>' AND seen_at < <sid>: the documents kept.
DeleteWhere(D, root, sid) == { d \in D : ~(d.root = root /\ d.seen_at < sid) }

\* A faulty variant of ExitStatus: every exception is swallowed.
ExitStatusAlwaysZero(p) == 0

\* The exit status main() gives a run that ended in stage p.
ExitStatus(p) == IF p = "error" THEN 1 ELSE 0

ZeroStats(t) ==
    [files_scanned |-> 0, files_indexed |-> 0, files_skipped |-> 0,
     files_deleted |-> 0, errors |-> 0, start_time |-> t]

\* The files the environment removes or modifies.
Mutable == {N_a, N_c}

Active == {"root", "walk", "entries", "flush", "final", "sweep"}

Ended == {"done", "error", "interrupted"}

VARIABLES
    clock,          \* the wall clock, in seconds
    fs,             \* the nodes on disk
    envSteps,          \* how many times the environment acted
    docs,           \* the documents of the engine's table
    pc,             \* the stage of the indexer process
    stats,          \* self.stats
    scan_id,        \* run(): scan_id
    root_i,         \* run(): the index of root_dir in scan_roots
    batch,          \* run(): batch
    stack,          \* _scan_directory: stack
    now,            \* _scan_directory: now
    listing,        \* _scan_directory: the entries of current_dir not yet visited
    attempt,        \* the failed attempts of the engine call in progress
    pending,        \* the records yielded in the current run and not yet acknowledged
    sent,           \* the sizes of the batches acknowledged in the current run
    prev_scan_id,   \* the scan_id of the run before the current one (0: none)
    docs0,          \* the documents of the table when the current run started
    quiet_runs,     \* how many runs in succession, the current one included, saw
                    \* no file change and no OSError, the earlier one complete (0..2)
    schema_ok,      \* whether _ensure_table_exists of this process got a 200 answer
    emitted,        \* the records the scanner yielded in the current run
    prev_end,       \* "interrupted" if the process before this one was interrupted,
                    \* the tree has not changed since its run started and it saw no
                    \* OSError; "none" otherwise
    peer,           \* the suspended one of two indexer processes (concurrent runs)
    probe,          \* an input of _is_excluded and its result (exclusion on its own)
    task,           \* wait_for_task: the answers polled, the time waited, the result
    calls           \* the upsert and delete requests sent in the current run; kept
                    \* only where termination is examined (NoCount elsewhere)

vars ==
    <<clock, fs, envSteps, docs, pc, stats, scan_id, root_i, batch,
      stack, now, listing, attempt, pending, sent, prev_scan_id, docs0, quiet_runs,
      schema_ok, emitted, prev_end, peer, probe, task, calls>>

\* The variables of one indexer process, as a record: what is set aside while
\* the other of two concurrent processes takes its steps.
Context ==
    [pc |-> pc, stats |-> stats, scan_id |-> scan_id, root_i |-> root_i,
     batch |-> batch, stack |-> stack, now |-> now, listing |-> listing,
     attempt |-> attempt, pending |-> pending, sent |-> sent,
     schema_ok |-> schema_ok, emitted |-> emitted]

\* A process that has not started.
IdleContext ==
    [pc |-> "idle", stats |-> ZeroStats(0), scan_id |-> 0, root_i |-> 1,
     batch |-> <<>>, stack |-> <<>>, now |-> 0, listing |-> {},
     attempt |-> 0, pending |-> <<>>, sent |-> <<>>,
     schema_ok |-> TRUE, emitted |-> {}]

\* No input of _is_excluded under examination.
NoProbe == [path |-> <<>>, pats |-> <<>>, out |-> "none"]

\* The requests of a run are not being counted.
NoCount == -1

\* A run starts: no request sent yet, where requests are counted.
ResetCount(c) == IF c = NoCount THEN c ELSE 0

\* One more request sent, where requests are counted.
CountCall(c) == IF c = NoCount THEN c ELSE c + 1

\* wait_for_task not called yet: no poll made, no time waited, nothing returned.
NoTask == [polls |-> <<>>, elapsed |-> 0, out |-> "none"]

Init ==
    /\ clock = StabilitySec
    /\ fs \in {DataTree \cup MntTree, DataTree, MntTree}
    /\ envSteps = 0
    /\ docs = {}
    /\ pc = "idle"
    /\ stats = ZeroStats(0)
    /\ scan_id = 0
    /\ root_i = 1
    /\ batch = <<>>
    /\ stack = <<>>
    /\ now = 0
    /\ listing = {}
    /\ attempt = 0
    /\ pending = <<>>
    /\ sent = <<>>
    /\ prev_scan_id = 0
    /\ docs0 = {}
    /\ quiet_runs = 0
    /\ schema_ok = TRUE
    /\ emitted = {}
    /\ prev_end = "none"
    /\ peer = IdleContext
    /\ probe = NoProbe
    /\ task = NoTask
    /\ calls = NoCount

(***************************************************************************)
(* The environment: time passes, files are removed or modified, another    *)
(* indexer instance writes a document under its own root name.             *)
(***************************************************************************)
\* The clock is read when a process starts, when run() starts and when the scan
\* of a root starts: it advances before those reads.
Tick ==
    /\ pc \in {"idle", "ready", "root"}
    /\ envSteps < MaxEnvSteps
    /\ envSteps' = envSteps + 1
    /\ clock' = clock + 1
    /\ UNCHANGED <<fs, docs, pc, stats, scan_id, root_i, batch, stack, now,
                   listing, attempt, pending, sent, prev_scan_id, docs0,
                   quiet_runs>>
    /\ UNCHANGED <<schema_ok, emitted, prev_end, peer, probe, task, calls>>

\* The filesystem is read by os.scandir and entry.stat: it changes before those
\* reads, or while no process runs.
RemoveFile ==
    /\ pc \in {"idle", "walk", "entries"}
    /\ envSteps < MaxEnvSteps
    /\ \E n \in fs :
           /\ n.kind = "file"
           /\ n.name \in Mutable
           /\ fs' = fs \ {n}
    /\ envSteps' = envSteps + 1
    /\ quiet_runs' = 0
    /\ UNCHANGED <<clock, docs, pc, stats, scan_id, root_i, batch, stack, now,
                   listing, attempt, pending, sent, prev_scan_id, docs0>>
    /\ prev_end' = "none"
    /\ UNCHANGED <<schema_ok, emitted, peer, probe, task, calls>>

TouchFile ==
    /\ pc \in {"idle", "walk", "entries"}
    /\ envSteps < MaxEnvSteps
    /\ \E n \in fs :
           /\ n.kind = "file"
           /\ n.name \in Mutable
           /\ n.mtime # clock
           /\ fs' = (fs \ {n}) \cup {[n EXCEPT !.mtime = clock]}
    /\ envSteps' = envSteps + 1
    /\ quiet_runs' = 0
    /\ UNCHANGED <<clock, docs, pc, stats, scan_id, root_i, batch, stack, now,
                   listing, attempt, pending, sent, prev_scan_id, docs0>>
    /\ prev_end' = "none"
    /\ UNCHANGED <<schema_ok, emitted, peer, probe, task, calls>>

\* os.rename of a.t within its directory, while no process runs: the entry keeps
\* its inode and its mtime.
RenameFile ==
    /\ pc = "idle"
    /\ envSteps < MaxEnvSteps
    /\ \E n \in fs :
           /\ n.kind = "file"
           /\ n.name = N_a
           /\ fs' = (fs \ {n}) \cup {[n EXCEPT !.name = N_r]}
    /\ envSteps' = envSteps + 1
    /\ quiet_runs' = 0
    /\ prev_end' = "none"
    /\ UNCHANGED <<clock, docs, pc, stats, scan_id, root_i, batch, stack, now,
                   listing, attempt, pending, sent, prev_scan_id, docs0,
                   schema_ok, emitted, peer, probe, task, calls>>

\* The indexer never reads the table: what another instance writes, it writes
\* while no process of this root runs.
OtherRootUpsert ==
    /\ pc = "idle"
    /\ \A d \in docs : d.root # OtherRoot
    /\ docs' = Replace(docs, <<[id |-> _compute_file_id(OtherDev, 1),
                                root |-> OtherRoot, path |-> <<Slash, "o">>,
                                seen_at |-> clock]>>)
    /\ UNCHANGED <<clock, fs, envSteps, pc, stats, scan_id, root_i, batch, stack,
                   now, listing, attempt, pending, sent, prev_scan_id, docs0,
                   quiet_runs>>
    /\ UNCHANGED <<schema_ok, emitted, prev_end, peer, probe, task, calls>>

(***************************************************************************)
(* main(): FileIndexer(config), then run().                                *)
(***************************************************************************)
\* FileIndexer.__init__ in a new process: fresh stats, then the schema call,
\* which the engine answers with 200 or not; its failure is logged and not raised.
Main ==
    /\ pc = "idle"
    /\ stats' = ZeroStats(clock)
    /\ schema_ok' \in BOOLEAN
    /\ pc' = AfterSchemaCall(schema_ok')
    /\ UNCHANGED <<clock, fs, envSteps, docs, scan_id, root_i, batch, stack, now,
                   listing, attempt, pending, sent, prev_scan_id, docs0,
                   quiet_runs>>
    /\ UNCHANGED <<emitted, prev_end, peer, probe, task, calls>>

\* run(): the scan identifier, the empty batch, the first root.
Run ==
    /\ pc = "ready"
    /\ scan_id' = NewScanId(clock)
    /\ prev_scan_id' = scan_id
    /\ batch' = <<>>
    /\ root_i' = 1
    /\ docs0' = docs
    /\ quiet_runs' = IF quiet_runs = 0 THEN 1 ELSE 2
    /\ pc' = "root"
    /\ UNCHANGED <<clock, fs, envSteps, docs, stats, stack, now, listing, attempt,
                   pending, sent>>
    /\ emitted' = {}
    /\ calls' = ResetCount(calls)
    /\ UNCHANGED <<schema_ok, prev_end, peer, probe, task>>

\* for root_dir in scan_roots: _scan_directory starts; a missing root yields nothing.
ScanRoot ==
    /\ pc = "root"
    /\ root_i <= Len(scan_roots)
    /\ IF Exists(fs, scan_roots[root_i])
       THEN /\ stack' = <<scan_roots[root_i]>>
            /\ now' = clock
            /\ pc' = "walk"
            /\ UNCHANGED root_i
       ELSE /\ root_i' = root_i + 1
            /\ pc' = AfterMissingRoot(pc)
            /\ UNCHANGED <<stack, now>>
    /\ UNCHANGED <<clock, fs, envSteps, docs, stats, scan_id, batch, listing,
                   attempt, pending, sent, prev_scan_id, docs0, quiet_runs>>
    /\ UNCHANGED <<schema_ok, emitted, prev_end, peer, probe, task, calls>>

\* while stack: current_dir = stack.pop(); skip it if excluded, else os.scandir,
\* which may raise.
PopDir ==
    /\ pc = "walk"
    /\ Len(stack) > 0
    /\ LET current_dir == stack[Len(stack)]
           rel_dir == RelPath(current_dir, scan_roots[root_i])
       IN /\ stack' = SubSeq(stack, 1, Len(stack) - 1)
          /\ IF SkipDir(rel_dir)
             THEN UNCHANGED <<listing, stats, pc, envSteps, quiet_runs>>
             ELSE \/ /\ envSteps < MaxEnvSteps
                     /\ envSteps' = envSteps + 1
                     /\ quiet_runs' = 0
                     /\ stats' = [stats EXCEPT !.errors = @ + 1]
                     /\ pc' = AfterDirError(pc)
                     /\ UNCHANGED listing
                  \/ /\ listing' = Scandir(fs, current_dir)
                     /\ pc' = "entries"
                     /\ UNCHANGED <<stats, envSteps, quiet_runs>>
    /\ UNCHANGED <<clock, fs, docs, scan_id, root_i, batch, now, attempt, pending,
                   sent, prev_scan_id, docs0>>
    /\ UNCHANGED <<schema_ok, emitted, prev_end, peer, probe, task, calls>>

\* The stack is empty: the generator of this root is exhausted.
EndRoot ==
    /\ pc = "walk"
    /\ Len(stack) = 0
    /\ root_i' = root_i + 1
    /\ now' = 0
    /\ pc' = "root"
    /\ UNCHANGED <<clock, fs, envSteps, docs, stats, scan_id, batch, stack,
                   listing, attempt, pending, sent, prev_scan_id, docs0,
                   quiet_runs>>
    /\ UNCHANGED <<schema_ok, emitted, prev_end, peer, probe, task, calls>>

\* for entry in entries: one entry of current_dir, and run()'s batch.append and
\* flush test for the record it yields.
ScanEntry ==
    /\ pc = "entries"
    /\ \E e \in listing :
         /\ listing' = listing \ {e}
         /\ \/ \* is_dir or is_file raises OSError
               /\ envSteps < MaxEnvSteps
               /\ envSteps' = envSteps + 1
               /\ quiet_runs' = 0
               /\ stats' = [stats EXCEPT !.errors = @ + 1]
               /\ pc' = AfterEntryError(pc)
               /\ UNCHANGED <<stack, batch, pending>>
            \/ /\ e.kind = "dir"
               /\ stack' = Append(stack, e.path)
               /\ UNCHANGED <<stats, batch, pending, pc, envSteps, quiet_runs>>
            \/ /\ e.kind \notin {"dir", "file"}
               /\ UNCHANGED <<stack, stats, batch, pending, pc, envSteps,
                              quiet_runs>>
            \/ /\ e.kind = "file"
               /\ _is_excluded(RelPath(e.path, scan_roots[root_i]))
               /\ stats' = [stats EXCEPT !.files_skipped = @ + 1]
               /\ UNCHANGED <<stack, batch, pending, pc, envSteps, quiet_runs>>
            \/ \* entry.stat raises: the file is gone
               /\ e.kind = "file"
               /\ ~_is_excluded(RelPath(e.path, scan_roots[root_i]))
               /\ StatOf(fs, e.path) = {}
               /\ stats' = [stats EXCEPT !.errors = @ + 1]
               /\ pc' = AfterEntryError(pc)
               /\ UNCHANGED <<stack, batch, pending, envSteps, quiet_runs>>
            \/ /\ e.kind = "file"
               /\ ~_is_excluded(RelPath(e.path, scan_roots[root_i]))
               /\ \E st \in StatOf(fs, e.path) :
                    IF Unstable(now, st.mtime)
                    THEN /\ stats' = [stats EXCEPT !.files_skipped = @ + 1]
                         /\ UNCHANGED <<stack, batch, pending, pc>>
                    ELSE /\ stats' = [stats EXCEPT !.files_scanned = @ + 1]
                         /\ batch' = Append(batch, Row(e.path, st, scan_id))
                         /\ pending' = Append(pending, Row(e.path, st, scan_id))
                         /\ pc' = IF FlushDue(batch') THEN "flush" ELSE pc
                         /\ UNCHANGED stack
               /\ UNCHANGED <<envSteps, quiet_runs>>
    /\ UNCHANGED <<clock, fs, docs, scan_id, root_i, now, attempt, sent,
                   prev_scan_id, docs0>>
    /\ emitted' = IF Len(batch') > Len(batch)
                  THEN emitted \cup {batch'[Len(batch')]}
                  ELSE emitted
    /\ UNCHANGED <<schema_ok, prev_end, peer, probe, task, calls>>

\* The entries of current_dir are exhausted: back to "while stack".
EndDir ==
    /\ pc = "entries"
    /\ listing = {}
    /\ pc' = "walk"
    /\ UNCHANGED <<clock, fs, envSteps, docs, stats, scan_id, root_i, batch, stack,
                   now, listing, attempt, pending, sent, prev_scan_id, docs0,
                   quiet_runs>>
    /\ UNCHANGED <<schema_ok, emitted, prev_end, peer, probe, task, calls>>

\* After the last root: flush the remaining records, or go straight to the sweep.
EndScan ==
    /\ pc = "root"
    /\ root_i > Len(scan_roots)
    /\ pc' = AfterScan(batch)
    /\ UNCHANGED <<clock, fs, envSteps, docs, stats, scan_id, root_i, batch, stack,
                   now, listing, attempt, pending, sent, prev_scan_id, docs0,
                   quiet_runs>>
    /\ UNCHANGED <<schema_ok, emitted, prev_end, peer, probe, task, calls>>

\* The locals of run() and of the generator are gone when run() is left.
Leave ==
    /\ batch' = <<>>
    /\ root_i' = 1
    /\ stack' = <<>>
    /\ now' = 0
    /\ listing' = {}
    /\ attempt' = 0

\* The pending records without those of an acknowledged batch.
Acknowledge(p, rows) ==
    SelectSeq(p, LAMBDA r : \A i \in 1..Len(rows) : rows[i] # r)

\* One attempt of _bulk_upsert(batch).  The engine answers 200 ("ok"), fails
\* without writing ("fail"), or writes and the answer is lost ("lost").  A failed
\* attempt is retried, the last one raises out of run().
UpsertAttempt ==
    /\ pc \in {"flush", "final"}
    /\ \E outcome \in {"ok", "fail", "lost"} :
         /\ docs' = IF outcome = "fail" THEN docs ELSE Replace(docs, batch)
         /\ stats' = AfterUpsert(stats, batch, outcome)
         /\ IF outcome = "ok"
            THEN /\ pending' = Acknowledge(pending, batch)
                 /\ sent' = Append(sent, Len(batch))
                 /\ attempt' = 0
                 /\ IF pc = "flush"
                    THEN batch' = <<>> /\ pc' = "entries"
                    ELSE batch' = batch /\ pc' = "sweep"
                 /\ UNCHANGED <<root_i, stack, now, listing>>
            ELSE /\ pc' = AfterFailure(attempt + 1, pc)
                 /\ IF pc' = pc
                    THEN /\ attempt' = attempt + 1
                         /\ UNCHANGED <<batch, root_i, stack, now, listing>>
                    ELSE Leave
                 /\ UNCHANGED <<pending, sent>>
    /\ UNCHANGED <<clock, fs, envSteps, scan_id, prev_scan_id, docs0, quiet_runs>>
    /\ calls' = CountCall(calls)
    /\ UNCHANGED <<schema_ok, emitted, prev_end, peer, probe, task>>

\* One attempt of _sweep_deletions(scan_id).  A 200 answer may or may not carry
\* the deleted count.  After the sweep run() logs the summary and returns.
SweepAttempt ==
    /\ pc = "sweep"
    /\ \E outcome \in {"ok", "fail", "lost"} :
         /\ docs' = IF outcome = "fail" THEN docs
                    ELSE DeleteWhere(docs, root_name, scan_id)
         /\ IF outcome = "ok"
            THEN /\ \E has_data \in BOOLEAN :
                      stats' = IF has_data
                               THEN [stats EXCEPT !.files_deleted =
                                         Cardinality(docs \ docs')]
                               ELSE stats
                 /\ pc' = "done"
                 /\ Leave
            ELSE /\ pc' = AfterFailure(attempt + 1, pc)
                 /\ IF pc' = pc
                    THEN /\ attempt' = attempt + 1
                         /\ UNCHANGED <<batch, root_i, stack, now, listing>>
                    ELSE Leave
                 /\ UNCHANGED stats
    /\ UNCHANGED <<clock, fs, envSteps, scan_id, pending, sent, prev_scan_id,
                   docs0, quiet_runs>>
    /\ calls' = CountCall(calls)
    /\ UNCHANGED <<schema_ok, emitted, prev_end, peer, probe, task>>

\* KeyboardInterrupt at any point of run(): main() logs it and exits.
Interrupt ==
    /\ pc \in Active
    /\ pc' = "interrupted"
    /\ Leave
    /\ UNCHANGED <<clock, fs, envSteps, docs, stats, scan_id, pending, sent,
                   prev_scan_id, docs0, quiet_runs>>
    /\ UNCHANGED <<schema_ok, emitted, prev_end, peer, probe, task, calls>>

\* The process ends (return from main() or sys.exit): its indexer is gone.
Exit ==
    /\ pc \in Ended
    /\ pc' = "idle"
    /\ stats' = ZeroStats(0)
    /\ pending' = <<>>
    /\ sent' = <<>>
    /\ docs0' = {}
    /\ quiet_runs' = IF pc = "done" THEN quiet_runs ELSE 0
    /\ UNCHANGED <<clock, fs, envSteps, docs, scan_id, root_i, batch, stack, now,
                   listing, attempt, prev_scan_id>>
    /\ schema_ok' = TRUE
    /\ emitted' = {}
    /\ prev_end' = IF quiet_runs >= 1 /\ pc = "interrupted" THEN pc ELSE "none"
    /\ UNCHANGED <<peer, probe, task, calls>>

Next ==
    \/ Tick
    \/ RemoveFile
    \/ TouchFile
    \/ RenameFile
    \/ OtherRootUpsert
    \/ Main
    \/ Run
    \/ ScanRoot
    \/ PopDir
    \/ EndRoot
    \/ ScanEntry
    \/ EndDir
    \/ EndScan
    \/ UpsertAttempt
    \/ SweepAttempt
    \/ Interrupt
    \/ Exit

Spec == Init /\ [][Next]_vars

(***************************************************************************)
(* Two indexer processes of the same root name at once.  Both run the code *)
(* above: one of them takes steps while the other is set aside in peer,    *)
(* and Switch hands over.  The scan reads a tree that does not change here *)
(* and writes nothing shared, so its steps commute with the other          *)
(* process's: the hand-over is at the engine calls, before the process     *)
(* starts and after it ended.                                              *)
(***************************************************************************)
SwitchPoints == {"idle", "flush", "final", "sweep"} \cup Ended

Switch ==
    /\ pc \in SwitchPoints
    /\ peer' = Context
    /\ pc' = peer.pc
    /\ stats' = peer.stats
    /\ scan_id' = peer.scan_id
    /\ root_i' = peer.root_i
    /\ batch' = peer.batch
    /\ stack' = peer.stack
    /\ now' = peer.now
    /\ listing' = peer.listing
    /\ attempt' = peer.attempt
    /\ pending' = peer.pending
    /\ sent' = peer.sent
    /\ schema_ok' = peer.schema_ok
    /\ emitted' = peer.emitted
    /\ UNCHANGED <<clock, fs, envSteps, docs, prev_scan_id, docs0, quiet_runs,
                   prev_end, probe, task, calls>>

ConcInit == Init /\ fs = DataTree

\* Each of the two processes runs once.
ConcNext ==
    \/ Tick
    \/ Main
    \/ Run
    \/ ScanRoot
    \/ PopDir
    \/ EndRoot
    \/ ScanEntry
    \/ EndDir
    \/ EndScan
    \/ UpsertAttempt
    \/ SweepAttempt
    \/ Switch

SpecConc == ConcInit /\ [][ConcNext]_vars

(***************************************************************************)
(* Vocabulary of the properties.                                           *)
(***************************************************************************)
Ids(D) == { d.id : d \in D }

RootDocs(D) == { d \in D : d.root = root_name }

FileId(n) == _compute_file_id(Dev, n.ino)

\* path lies below root
IsUnder(path, root) ==
    /\ Len(path) > Len(root) + 1
    /\ SubSeq(path, 1, Len(root)) = root
    /\ path[Len(root) + 1] = Slash

\* No directory between root and path, root apart, is one the scanner skips.
EnteredDirs(path, root) ==
    \A k \in (Len(root) + 2)..Len(path) :
        path[k] = Slash => ~SkipDir(RelPath(SubSeq(path, 1, k - 1), root))

\* n is a regular file below a configured root, reached through directories the
\* scanner enters, that no pattern excludes.
Indexable(n) ==
    /\ n.kind = "file"
    /\ \E i \in 1..Len(scan_roots) :
           /\ IsUnder(NodePath(n), scan_roots[i])
           /\ EnteredDirs(NodePath(n), scan_roots[i])
           /\ ~_is_excluded(RelPath(NodePath(n), scan_roots[i]))

\* The indexable files now on disk, and those among them with document id id.
LiveFiles == { n \in fs : Indexable(n) }

LiveWithId(id) == { n \in LiveFiles : FileId(n) = id }

\* d matches the filter of the sweep of the current run.
Swept(d) == d.root = root_name /\ d.seen_at < scan_id

(***************************************************************************)
(* C1.  Within one run the deletion sweep is issued only after every       *)
(* record the scanner yielded has been acknowledged by a successful        *)
(* bulk_upsert, the final partial batch included: whenever the run is at   *)
(* the sweep no yielded record is unacknowledged, and a step that removes  *)
(* a document from the table is taken at the sweep only.                   *)
(***************************************************************************)
C1_SweepAfterAllBatches ==
    /\ [](pc = "sweep" => pending = <<>>)
    /\ [][(\E d \in docs : d.id \notin Ids(docs'))
              => (pc = "sweep" /\ pending = <<>>)]_vars

\* The sweep is about to be issued after a full and a final partial batch.
C1_Witness ==
    /\ pc = "sweep"
    /\ Len(sent) = 2
    /\ sent[2] < BatchSize
    /\ attempt = 1

(***************************************************************************)
(* C2.  The sweep never deletes the document of a file that still exists   *)
(* under the configured roots and is not excluded: a step that removes a   *)
(* document of the root name removes only documents with no such file.     *)
(***************************************************************************)
C2_SweepSparesLiveFiles ==
    [][\A d \in RootDocs(docs) :
           d.id \notin Ids(docs') => LiveWithId(d.id) = {}]_vars

(***************************************************************************)
(* C3.  Every record in the batch of a run and every document the run      *)
(* writes carries seen_at = scan_id, and scan_id does not change while     *)
(* the run is under way.                                                   *)
(***************************************************************************)
C3_SeenAtIsScanId ==
    [][/\ pc' \in Active =>
              \A i \in 1..Len(batch') : batch'[i].seen_at = scan_id'
       /\ pc \in Active =>
              \A d \in docs' \ docs : d.seen_at = scan_id /\ d.root = root_name
       /\ (pc \in Active /\ pc' \in Active) => scan_id' = scan_id]_vars

\* A record is in the batch and a document of this run is in the table, while
\* the time the scan of the root read differs from the scan identifier.
C3_Witness ==
    /\ pc = "entries"
    /\ now # scan_id
    /\ Len(batch) > 0
    /\ \E d \in RootDocs(docs) : d.seen_at = scan_id /\ d \notin docs0

C5_SecondPassIdempotent ==
    (/\ pc = "done"
     /\ quiet_runs = 2
     /\ prev_scan_id < scan_id
     /\ \A n \in LiveFiles : ~Unstable(prev_scan_id, n.mtime))
    => /\ Ids(RootDocs(docs)) = Ids(RootDocs(docs0))
       /\ \A d \in RootDocs(docs) : d.seen_at = scan_id

(***************************************************************************)
(* C6.  The scan identifier of a run is strictly greater than that of the  *)
(* run that started before it.                                             *)
(***************************************************************************)
C6_ScanIdIncreases ==
    (pc \in Active /\ prev_scan_id # 0) => scan_id > prev_scan_id

(***************************************************************************)
(* C7.  bulk_upsert is attempted at most three times for a batch; when the *)
(* third attempt fails run() is left with the error: the records of the    *)
(* failed batch are not counted in files_indexed, and from the error stage *)
(* the process only ends, the table untouched: no later batch, no further  *)
(* root, no sweep.                                                         *)
(***************************************************************************)
C7_UpsertRetriesBounded ==
    /\ [](pc \in {"flush", "final"} => attempt < 3)
    /\ [][(pc \in {"flush", "final"} /\ attempt = 2 /\ sent' = sent
               /\ pc' # "interrupted") => pc' = "error"]_vars
    /\ [][(pc \in {"flush", "final"} /\ pc' = "error")
              => /\ attempt = 2
                 /\ pending' # <<>>
                 /\ stats'.files_indexed = stats.files_indexed
                 /\ stats'.files_indexed + Len(pending') = stats'.files_scanned]_vars
    /\ [][pc = "error" => (pc' = "idle" /\ docs' = docs)]_vars

\* A batch was acknowledged and a later batch failed three times.
C7_Witness ==
    /\ pc = "error"
    /\ Len(sent) = 1
    /\ Len(pending) = 1
    /\ stats.files_indexed = BatchSize

(***************************************************************************)
(* C8.  The sweep is attempted at most three times; the run completes      *)
(* (stage done, exit status 0, the summary logged) only by a sweep the     *)
(* engine answered, after which no document of the root name older than    *)
(* the scan identifier is left; when the third attempt fails the run ends  *)
(* in the error stage, with exit status 1.                                 *)
(***************************************************************************)
C8_SweepFailureIsFatal ==
    /\ [](pc = "sweep" => attempt < 3)
    /\ [][pc' = "done" => (pc = "sweep" /\ \A d \in docs' : ~Swept(d))]_vars
    /\ [][(pc = "sweep" /\ attempt = 2 /\ pc' \notin {"done", "interrupted"})
              => (pc' = "error" /\ ExitStatus(pc') = 1)]_vars

\* Every batch was acknowledged and the sweep failed three times, leaving a
\* document it should have deleted.
C8_Witness ==
    /\ pc = "error"
    /\ pending = <<>>
    /\ Len(sent) >= 1
    /\ \E d \in docs : Swept(d)

(***************************************************************************)
(* C9.  With n the number of records the scanner yielded, a run that       *)
(* completes has made ceil(n / batch_size) acknowledged bulk_upsert calls, *)
(* all but the last of batch_size records, the last of the remainder; no   *)
(* call carries zero records, and files_indexed = n at the end.            *)
(***************************************************************************)
C9_Batching ==
    /\ pc \in {"flush", "final"} => (1 <= Len(batch) /\ Len(batch) <= BatchSize)
    /\ pc = "done" =>
           LET n == stats.files_scanned
               k == Len(sent)
           IN /\ k = (n + BatchSize - 1) \div BatchSize
              /\ \A i \in 1..(k - 1) : sent[i] = BatchSize
              /\ k > 0 => sent[k] = n - BatchSize * (k - 1)
              /\ \A i \in 1..k : sent[i] >= 1
              /\ stats.files_indexed = n

\* Three records: a full batch, then the final batch of one.
C9_Witness ==
    /\ pc = "done"
    /\ stats.files_scanned = BatchSize + 1
    /\ sent = <<BatchSize, 1>>

(***************************************************************************)
(* C10.  An attempt of the sweep removes nothing but documents of the root *)
(* name with seen_at < scan_id: documents of another root and documents    *)
(* with seen_at >= scan_id stay as they are; and the sweep the engine      *)
(* answered has removed every document of the root name with               *)
(* seen_at < scan_id.                                                      *)
(***************************************************************************)
C10_SweepFrame ==
    [][pc = "sweep" =>
           /\ docs' \subseteq docs
           /\ \A d \in docs : ~Swept(d) => d \in docs'
           /\ pc' = "done" => \A d \in docs : Swept(d) => d \notin docs']_vars

\* The sweep deleted a document of the root name, kept one stamped with the scan
\* identifier and kept an older document of another root.
C10_Witness ==
    /\ pc = "done"
    /\ \E d \in docs : d.root = OtherRoot /\ d.seen_at < scan_id
    /\ \E d \in RootDocs(docs) : d.seen_at = scan_id
    /\ \E d \in RootDocs(docs0) : d.id \notin Ids(docs)

\* The records of the set-aside process that the engine acknowledged to it.
PeerAcknowledged ==
    { r \in peer.emitted : \A i \in 1..Len(peer.pending) : peer.pending[i] # r }

(***************************************************************************)
(* C11.  Two runs of the same root name at once, with different scan       *)
(* identifiers: an acknowledged bulk_upsert leaves each of its records in  *)
(* the table, whatever stamp the document had before, and the sweep the    *)
(* engine answered removes every document stamped below its run's          *)
(* identifier, those acknowledged to the other run included.  So the sweep *)
(* of the run with the larger identifier deletes a document the other run  *)
(* has just upserted for a file that is still on disk (the witness).       *)
(***************************************************************************)
C11_ConcurrentSweepRace ==
    /\ [][(pc \in {"flush", "final"} /\ sent' # sent /\ peer' = peer)
              => \A i \in 1..Len(batch) : batch[i] \in docs']_vars
    /\ [][(pc = "sweep" /\ pc' = "done" /\ peer' = peer)
              => \A r \in PeerAcknowledged :
                     (r \in docs /\ r.seen_at < scan_id) => r.id \notin Ids(docs')]_vars

\* Neither run met a filesystem error.  The run with the larger identifier has
\* upserted its record of a file and completed its sweep; the other run, not yet
\* at its own sweep, holds the acknowledgement of its record of that file, which
\* is on disk; and the table has no document of the file.
C11_Witness ==
    /\ pc = "done"
    /\ stats.errors = 0 /\ peer.stats.errors = 0
    /\ peer.pc \in {"flush", "final", "sweep"}
    /\ peer.attempt = 0
    /\ 0 < peer.scan_id /\ peer.scan_id < scan_id
    /\ \E r \in PeerAcknowledged :
           /\ LiveWithId(r.id) # {}
           /\ r.id \in Ids(emitted)
           /\ r.id \notin Ids(docs)

(***************************************************************************)
(* C12.  A run was interrupted, the tree has not changed since that run    *)
(* started, every indexable file is stable and no OSError is raised: the   *)
(* complete run that follows leaves the table holding, for the root name,  *)
(* exactly the documents of the indexable files on disk, all stamped with  *)
(* its identifier.                                                         *)
(***************************************************************************)
C12_RecoveryAfterInterrupt ==
    (/\ pc = "done"
     /\ prev_end = "interrupted"
     /\ quiet_runs >= 1
     /\ \A n \in LiveFiles : ~Unstable(scan_id, n.mtime))
    => /\ Ids(RootDocs(docs)) = { FileId(n) : n \in LiveFiles }
       /\ \A d \in RootDocs(docs) : d.seen_at = scan_id

\* The interruption itself: the table is left as it is and the buffer is dropped.
C12_InterruptKeepsTable ==
    [][pc' = "interrupted" => (docs' = docs /\ batch' = <<>>)]_vars

(***************************************************************************)
(* C13.  As claimed: a process ends with a non-zero exit status whenever   *)
(* its schema call failed or an engine call of its run exhausted the       *)
(* retries, and with status zero when its run completed.                   *)
(***************************************************************************)
C13_ExitStatusWithSchema ==
    /\ (pc \in {"done", "error"} /\ (~schema_ok \/ pc = "error"))
           => ExitStatus(pc) # 0
    /\ (pc = "done" /\ schema_ok) => ExitStatus(pc) = 0

(***************************************************************************)
(* C13, amended.  A process ends with a non-zero exit status whenever a    *)
(* bulk_upsert or the sweep of its run fails for the third time, and with  *)
(* status zero whenever its run completes, also with no file found and     *)
(* also when its schema call had failed.                                   *)
(***************************************************************************)
C13_ExitStatus ==
    /\ [][(/\ pc \in {"flush", "final", "sweep"}
           /\ attempt = MaxAttempts - 1
           /\ pc' \notin {pc, "entries", "sweep", "done", "interrupted"})
              => (pc' \in Ended /\ ExitStatus(pc') # 0)]_vars
    /\ [](pc = "done" => ExitStatus(pc) = 0)

\* A run that found no file completed although the schema call had failed.
C13_Witness ==
    /\ pc = "done"
    /\ ~schema_ok
    /\ stats.files_scanned = 0
    /\ ExitStatus(pc) = 0

\* The stages of a run in the order of the spec: SCANNING(i) is i, BATCHING
\* (an engine call for a batch) comes after the last root, then SWEEPING, DONE.
StageInOrder(p, i) ==
    IF p \in {"root", "walk", "entries"} THEN i
    ELSE IF p \in {"flush", "final"} THEN Len(scan_roots) + 2
    ELSE IF p = "sweep" THEN Len(scan_roots) + 3
    ELSE Len(scan_roots) + 4

\* The same with the flush of a full batch counted to the scan of its root.
Stage(p, i) ==
    IF p \in {"root", "walk", "entries", "flush"} THEN i
    ELSE IF p = "final" THEN Len(scan_roots) + 2
    ELSE IF p = "sweep" THEN Len(scan_roots) + 3
    ELSE Len(scan_roots) + 4

\* The stage a run may be in next, by the stage it is in.
Successors(p) ==
    CASE p = "ready" -> {"root"}
      [] p = "root" -> {"root", "walk", "final", "sweep"}
      [] p = "walk" -> {"walk", "entries", "root"}
      [] p = "entries" -> {"entries", "walk", "flush"}
      [] p = "flush" -> {"flush", "entries", "error"}
      [] p = "final" -> {"final", "sweep", "error"}
      [] p = "sweep" -> {"sweep", "done", "error"}
      [] OTHER -> {"idle"}

(***************************************************************************)
(* C14.  As claimed: from START a run goes through SCANNING of the roots   *)
(* in their order, then BATCHING, then SWEEPING, then DONE, never back to  *)
(* an earlier stage.                                                       *)
(***************************************************************************)
C14_StagesInOrder ==
    [][(pc \in Active /\ pc' \in Active \cup {"done"})
           => StageInOrder(pc', root_i') >= StageInOrder(pc, root_i)]_vars

(***************************************************************************)
(* C14, amended.  A run scans the roots in their configured order, none    *)
(* twice; a full batch is flushed in the middle of the scan of a root and  *)
(* the scan goes on after it; the final flush follows the last root, the   *)
(* sweep follows the flushes, DONE follows the sweep; each step leads to a *)
(* stage that may follow; and ERROR is absorbing: from it the process only *)
(* ends, with no scan step (no counter changes) and no engine call (the    *)
(* table and the attempts stay).                                           *)
(***************************************************************************)
C14_StageOrder ==
    /\ [][(pc \in Active /\ pc' \in Active \cup {"done"})
              => /\ Stage(pc', root_i') >= Stage(pc, root_i)
                 /\ root_i' \in {root_i, root_i + 1} \/ pc' = "done"]_vars
    /\ [][(pc # "idle" /\ pc' # pc /\ pc' # "interrupted")
              => pc' \in Successors(pc)]_vars
    /\ [](pc \in {"walk", "entries", "flush"} =>
              /\ root_i \in 1..Len(scan_roots)
              /\ \A k \in 1..Len(stack) :
                     stack[k] = scan_roots[root_i] \/ IsUnder(stack[k], scan_roots[root_i]))
    /\ [][pc = "error"
              => (pc' = "idle" /\ docs' = docs /\ attempt' = attempt
                  /\ stack' = stack /\ listing' = listing /\ batch' = batch)]_vars

\* A full batch was flushed during the scan of the first root, the second root
\* was scanned after it, and the run is done.
C14_Witness ==
    /\ pc = "done"
    /\ Len(sent) = 2
    /\ \E r \in emitted : IsUnder(r.path, scan_roots[2])
    /\ \E r \in emitted : IsUnder(r.path, scan_roots[1])

\* The files now named r.t whose document, under the path they had as a.t, was
\* in the table when the current run started.
Renamed ==
    { n \in LiveFiles :
          /\ n.name = N_r
          /\ \E d \in RootDocs(docs0) : d.path = PathJoin(n.dir, N_a) }

(***************************************************************************)
(* C15.  The document id is made of device and inode only.  A file that    *)
(* was indexed, then renamed within its directory, and is stable when the  *)
(* next complete pass (one without filesystem change or OSError) reads it: *)
(* after that pass the table holds exactly one document with the file's    *)
(* id, it carries the new path and the identifier of that pass, and no     *)
(* document of the root name carries the old path.                         *)
(***************************************************************************)
C15_RenameKeepsDocument ==
    (pc = "done" /\ quiet_runs >= 1)
    => \A n \in Renamed :
           ~Unstable(scan_id, n.mtime)
           => /\ Cardinality({ e \in docs : e.id = FileId(n) }) = 1
              /\ \A e \in docs :
                     e.id = FileId(n)
                     => /\ e.path = NodePath(n)
                        /\ e.seen_at = scan_id
                        /\ e.id = _compute_file_id(Dev, n.ino)
              /\ \A e \in RootDocs(docs) : e.path # PathJoin(n.dir, N_a)

\* A pass indexed a.t, the file was renamed to r.t, and the next pass is done:
\* the document of the inode now carries the new path.
C15_Witness ==
    /\ pc = "done"
    /\ quiet_runs >= 1
    /\ \E n \in Renamed :
           /\ ~Unstable(scan_id, n.mtime)
           /\ \E e \in docs : e.id = FileId(n) /\ e.path = NodePath(n)
           /\ \E d \in docs0 :
                  /\ d.id = FileId(n) /\ d.path = PathJoin(n.dir, N_a)
                  /\ d.seen_at < scan_id

\* The regular files below root that are reached through directories the scanner
\* enters, are not excluded themselves, and are older than the stability window
\* at time tnow.
Expected(root, tnow) ==
    { n \in fs :
          /\ n.kind = "file"
          /\ IsUnder(NodePath(n), root)
          /\ EnteredDirs(NodePath(n), root)
          /\ ~_is_excluded(RelPath(NodePath(n), root))
          /\ tnow - n.mtime >= StabilitySec }

\* The records emitted so far for entries below root.
EmittedUnder(root) == { r \in emitted : IsUnder(r.path, root) }

(***************************************************************************)
(* C16.  When the scan of a root ends and the run has met no OSError and   *)
(* no change of the filesystem, the records emitted for that root are: one *)
(* for every regular file that is reached through non-excluded             *)
(* directories, is not excluded itself and is older than the stability     *)
(* window, with the file's id and path, and none for any other entry.  At  *)
(* every moment of a run files_scanned is the number of records emitted.   *)
(***************************************************************************)
C16_ScanCompleteness ==
    /\ (pc = "walk" /\ stack = <<>> /\ quiet_runs >= 1 /\ stats.errors = 0)
       => /\ { r.path : r \in EmittedUnder(scan_roots[root_i]) }
                 = { NodePath(n) : n \in Expected(scan_roots[root_i], now) }
          /\ \A r \in EmittedUnder(scan_roots[root_i]) :
                 \E n \in Expected(scan_roots[root_i], now) :
                     /\ r.path = NodePath(n)
                     /\ r.id = FileId(n)
                     /\ r.root = root_name
    /\ (pc \in Active \cup {"done"}) => stats.files_scanned = Cardinality(emitted)
    /\ (pc \in Active \cup {"done"}) =>
           \A r1, r2 \in emitted : r1.path = r2.path => r1 = r2

\* The scan of the second root ends: of d.t, the link k, and h.t in the excluded
\* directory .g only d.t was emitted; the first root gave a.t and the nested
\* c.p but not the excluded b.l.
C16_Witness ==
    /\ pc = "walk" /\ stack = <<>> /\ root_i = 2
    /\ quiet_runs >= 1 /\ stats.errors = 0
    /\ stats.files_scanned = 3
    /\ \E n \in fs : n.kind = "link"
    /\ \E n \in fs : n.name = N_h
    /\ \E n \in fs : n.name = N_b
    /\ \E r \in emitted : r.path = PathJoin(PathJoin(P_data, N_sub), N_c)
    /\ { r.path : r \in EmittedUnder(P_mnt) } = { PathJoin(P_mnt, N_d) }

\* path lies in the subtree of a directory below root whose root-relative path
\* is excluded.
InExcludedSubtree(path, root) ==
    /\ IsUnder(path, root)
    /\ \E k \in (Len(root) + 2)..Len(path) :
           /\ path[k] = Slash
           /\ _is_excluded(RelPath(SubSeq(path, 1, k - 1), root))

(***************************************************************************)
(* C17.  A directory below the root whose root-relative path is excluded   *)
(* is never enumerated: popping it reads no listing and changes no         *)
(* counter, no entry of its subtree is ever in the listing being read, no  *)
(* directory of its subtree is ever on the stack, and no record is ever    *)
(* emitted for a path in its subtree.                                      *)
(***************************************************************************)
C17_ExcludedDirNotEnumerated ==
    /\ [][(/\ pc = "walk" /\ pc' # "interrupted"
           /\ Len(stack) > 0 /\ Len(stack') < Len(stack)
           /\ stack[Len(stack)] # scan_roots[root_i]
           /\ _is_excluded(RelPath(stack[Len(stack)], scan_roots[root_i])))
              => (pc' = "walk" /\ listing' = listing /\ stats' = stats
                  /\ emitted' = emitted /\ batch' = batch)]_vars
    /\ [](pc \in {"walk", "entries", "flush"} =>
              /\ \A e \in listing : ~InExcludedSubtree(e.path, scan_roots[root_i])
              /\ \A k \in 1..Len(stack) :
                     ~InExcludedSubtree(stack[k], scan_roots[root_i]))
    /\ [](\A r \in emitted :
              \A i \in 1..Len(scan_roots) : ~InExcludedSubtree(r.path, scan_roots[i]))

\* The scan of /m is over: the excluded directory .g was pushed, popped and
\* skipped; h.t and o, which it holds, gave no record and no stack entry.
C17_Witness ==
    /\ pc = "walk" /\ stack = <<>> /\ listing = {}
    /\ scan_roots[root_i] = P_mnt
    /\ _is_excluded(RelPath(PathJoin(P_mnt, N_git), P_mnt))
    /\ \E n \in fs : n.dir = PathJoin(P_mnt, N_git) /\ n.kind = "file"
    /\ \E n \in fs : n.dir = PathJoin(P_mnt, N_git) /\ n.kind = "dir"
    /\ \A r \in emitted : ~InExcludedSubtree(r.path, P_mnt)
    /\ stats.files_skipped = 1

(***************************************************************************)
(* _is_excluded on its own: a path and a pattern list are chosen, and the  *)
(* function is applied to them.                                            *)
(***************************************************************************)
\* the pattern "*.log"
Pat_log ==
    <<"*", ".", "l", "o", "g">>

\* the pattern "/tmp/**"
Pat_tmp ==
    <<"/", "t", "m", "p", "/", "*", "*">>

\* the pattern "**/node_modules/**"
Pat_any_node_modules ==
    <<"*", "*", "/", "n", "o", "d", "e", "_", "m", "o", "d", "u", "l",
    "e", "s", "/", "*", "*">>

\* the pattern ".git": a bare directory name
Pat_git ==
    <<".", "g", "i", "t">>

\* the pattern "node_modules/**"
Pat_node_modules ==
    <<"n", "o", "d", "e", "_", "m", "o", "d", "u", "l", "e", "s", "/",
    "*", "*">>

\* the pattern "build/": a directory name with the separator
Pat_build ==
    <<"b", "u", "i", "l", "d", "/">>

\* "test.log"
T_test_log ==
    <<"t", "e", "s", "t", ".", "l", "o", "g">>

\* "/tmp/file.txt"
T_tmp_file ==
    <<"/", "t", "m", "p", "/", "f", "i", "l", "e", ".", "t", "x", "t">>

\* "project/node_modules/package.json"
T_package_json ==
    <<"p", "r", "o", "j", "e", "c", "t", "/", "n", "o", "d", "e", "_",
    "m", "o", "d", "u", "l", "e", "s", "/", "p", "a", "c", "k", "a", "g",
    "e", ".", "j", "s", "o", "n">>

\* ".git" as a path
T_git ==
    <<".", "g", "i", "t">>

\* "test.txt"
T_test_txt ==
    <<"t", "e", "s", "t", ".", "t", "x", "t">>

\* "src/main.py"
T_main_py ==
    <<"s", "r", "c", "/", "m", "a", "i", "n", ".", "p", "y">>

\* ".git/config"
D_git_config ==
    <<".", "g", "i", "t", "/", "c", "o", "n", "f", "i", "g">>

\* ".git/objects/ab/cd"
D_git_deep ==
    <<".", "g", "i", "t", "/", "o", "b", "j", "e", "c", "t", "s", "/",
    "a", "b", "/", "c", "d">>

\* "node_modules/a/lib/b.js"
D_nm_deep ==
    <<"n", "o", "d", "e", "_", "m", "o", "d", "u", "l", "e", "s", "/",
    "a", "/", "l", "i", "b", "/", "b", ".", "j", "s">>

\* "build/out.js"
D_build_out ==
    <<"b", "u", "i", "l", "d", "/", "o", "u", "t", ".", "j", "s">>

\* "a/.git/config"
D_nested_git ==
    <<"a", "/", ".", "g", "i", "t", "/", "c", "o", "n", "f", "i", "g">>

\* "x.log/y": a file in a directory named like a log file
D_log_dir ==
    <<"x", ".", "l", "o", "g", "/", "y">>

\* indexer.excludes of test_is_excluded
TestPatterns == <<Pat_log, Pat_tmp, Pat_any_node_modules, Pat_git>>

\* The paths _is_excluded is applied to.
ProbePaths ==
    { T_test_log, T_tmp_file, T_package_json, T_git, T_test_txt, T_main_py,
      D_git_config, D_git_deep, D_nm_deep, D_build_out, D_nested_git, D_log_dir }

\* The pattern lists it is applied with.
ProbePatterns ==
    { TestPatterns, <<>>, <<Pat_git>>, <<Pat_node_modules>>, <<Pat_build>>,
      <<Pat_log>>, <<Pat_log, Pat_build>>, <<Pat_any_node_modules>>,
      <<Pat_tmp, Pat_git>> }

ExcludeInit ==
    /\ clock = StabilitySec
    /\ fs = DataTree
    /\ envSteps = 0
    /\ docs = {}
    /\ pc = "idle"
    /\ stats = ZeroStats(0)
    /\ scan_id = 0
    /\ root_i = 1
    /\ batch = <<>>
    /\ stack = <<>>
    /\ now = 0
    /\ listing = {}
    /\ attempt = 0
    /\ pending = <<>>
    /\ sent = <<>>
    /\ prev_scan_id = 0
    /\ docs0 = {}
    /\ quiet_runs = 0
    /\ schema_ok = TRUE
    /\ emitted = {}
    /\ prev_end = "none"
    /\ peer = IdleContext
    /\ probe \in [path : ProbePaths, pats : ProbePatterns, out : {"none"}]
    /\ task = NoTask
    /\ calls = NoCount

\* self.excludes = probe.pats; self._is_excluded(probe.path)
ProbeExcluded ==
    /\ probe.out = "none"
    /\ probe' = [probe EXCEPT !.out = IF IsExcludedBy(probe.path, probe.pats)
                                      THEN "true" ELSE "false"]
    /\ UNCHANGED <<clock, fs, envSteps, docs, pc, stats, scan_id, root_i, batch,
                   stack, now, listing, attempt, pending, sent, prev_scan_id,
                   docs0, quiet_runs, schema_ok, emitted, prev_end, peer, task, calls>>

ExcludeNext == ProbeExcluded

SpecExclude == ExcludeInit /\ [][ExcludeNext]_vars

\* path starts with dir followed by the separator: it lies in dir's subtree.
InSubtree(path, dir) ==
    /\ Len(path) > Len(dir) + 1
    /\ SubSeq(path, 1, Len(dir) + 1) = dir \o <<Slash>>

\* The directory a pattern names: itself if it is a bare name (no separator, no
\* wildcard), dir if it is dir/**; the empty sequence otherwise.
DirOfPattern(pat) ==
    IF \A i \in 1..Len(pat) : pat[i] \notin {Slash, "*", "?"}
    THEN pat
    ELSE IF /\ Len(pat) > 3
            /\ SubSeq(pat, Len(pat) - 2, Len(pat)) = <<Slash, "*", "*">>
            /\ \A i \in 1..(Len(pat) - 3) : pat[i] \notin {Slash, "*", "?"}
         THEN SubSeq(pat, 1, Len(pat) - 3)
         ELSE <<>>

(***************************************************************************)
(* C18.  With a single pattern that is a bare directory name or dir/**,    *)
(* _is_excluded is true for every path in the subtree of that directory.   *)
(***************************************************************************)
C18_DirPatternExcludesSubtree ==
    (/\ probe.out # "none"
     /\ Len(probe.pats) = 1
     /\ DirOfPattern(probe.pats[1]) # <<>>
     /\ InSubtree(probe.path, DirOfPattern(probe.pats[1])))
    => probe.out = "true"

\* What holds of the two forms: dir/** excludes the subtree of dir; a bare name
\* excludes the path equal to it and no path below it.
C18_BareNameExcludesOnlyItself ==
    (/\ probe.out # "none"
     /\ Len(probe.pats) = 1
     /\ DirOfPattern(probe.pats[1]) # <<>>)
    => /\ (probe.pats[1] # DirOfPattern(probe.pats[1])
           /\ InSubtree(probe.path, DirOfPattern(probe.pats[1])))
              => probe.out = "true"
       /\ probe.pats[1] = DirOfPattern(probe.pats[1])
              => (probe.out = "true" <=> probe.path = probe.pats[1])

\* The proper prefixes of path that end with a separator: each ancestor of the
\* path with the separator after it.
AncestorPrefixes(path) ==
    { SubSeq(path, 1, k) : k \in { j \in 1..(Len(path) - 1) : path[j] = Slash } }

(***************************************************************************)
(* C19.  _is_excluded answers true or false for every input, and true      *)
(* exactly when the path or one of its proper ancestor prefixes with the   *)
(* trailing separator matches one of the patterns.  With the patterns      *)
(* *.log, /tmp/**, **/node_modules/**, .git it is true for test.log,       *)
(* /tmp/file.txt, project/node_modules/package.json and .git, and false    *)
(* for test.txt and src/main.py.                                           *)
(***************************************************************************)
C19_ExcludedIffPathOrAncestorMatches ==
    probe.out # "none"
    => /\ probe.out \in {"true", "false"}
       /\ probe.out = "true"
              <=> \E i \in 1..Len(probe.pats) :
                      \E x \in {probe.path} \cup AncestorPrefixes(probe.path) :
                          Fnmatch(x, probe.pats[i])
       /\ probe.pats = TestPatterns
              => /\ probe.path \in {T_test_log, T_tmp_file, T_package_json, T_git}
                        => probe.out = "true"
                 /\ probe.path \in {T_test_txt, T_main_py} => probe.out = "false"

\* build/out.js with the patterns *.log and build/: no pattern matches the path,
\* the pattern build/ matches its ancestor prefix, and the answer is true.
C19_Witness ==
    /\ probe.out = "true"
    /\ probe.path = D_build_out
    /\ probe.pats = <<Pat_log, Pat_build>>
    /\ \A i \in 1..Len(probe.pats) : ~Fnmatch(probe.path, probe.pats[i])
    /\ Fnmatch(<<"b", "u", "i", "l", "d", "/">>, Pat_build)

\* The step visits the entry e of the listing, a regular file that is not
\* excluded and is on disk, and raises no OSError.
VisitsFile(e) ==
    /\ pc = "entries" /\ pc' \in {"entries", "flush"}
    /\ e \in listing /\ listing' = listing \ {e}
    /\ e.kind = "file"
    /\ ~_is_excluded(RelPath(e.path, scan_roots[root_i]))
    /\ StatOf(fs, e.path) # {}
    /\ stats'.errors = stats.errors

(***************************************************************************)
(* C20.  When the scanner visits a regular file that is not excluded, it   *)
(* skips the file (files_skipped grows by one, no record is emitted)       *)
(* exactly when now - mtime < stability window, and emits its record       *)
(* (files_scanned grows by one) otherwise, so also when now - mtime equals *)
(* the window: now, mtime and the window decide, whatever the rest of the  *)
(* state is.                                                               *)
(***************************************************************************)
C20_StabilityBoundary ==
    [][\A e \in listing :
           VisitsFile(e)
           => \A st \in StatOf(fs, e.path) :
                  IF now - st.mtime < StabilitySec
                  THEN /\ stats'.files_skipped = stats.files_skipped + 1
                       /\ stats'.files_scanned = stats.files_scanned
                       /\ batch' = batch
                       /\ emitted' = emitted
                  ELSE /\ stats'.files_scanned = stats.files_scanned + 1
                       /\ stats'.files_skipped = stats.files_skipped
                       /\ Len(batch') = Len(batch) + 1
                       /\ batch'[Len(batch')].path = e.path
                       /\ batch'[Len(batch')] \in emitted']_vars

\* The scan of /d is over without error: a file exactly as old as the window
\* was emitted, and a file modified within the window was skipped, as was the
\* excluded b.l.
C20_Witness ==
    /\ pc = "walk" /\ stack = <<>> /\ root_i = 1
    /\ stats.errors = 0
    /\ stats.files_skipped = 2
    /\ \E n1, n2 \in LiveFiles :
           /\ IsUnder(NodePath(n1), P_data) /\ IsUnder(NodePath(n2), P_data)
           /\ now - n1.mtime = StabilitySec
           /\ \E r \in emitted : r.path = NodePath(n1)
           /\ now - n2.mtime < StabilitySec
           /\ \A r \in emitted : r.path # NodePath(n2)

(***************************************************************************)
(* C21.  An OSError on one entry of a directory (is_dir, is_file or stat   *)
(* raises) adds one to errors and drops that entry alone: the other        *)
(* entries of the listing stay to be visited, the stack, the batch, the    *)
(* emitted records and the other counters are as before, and the scanner   *)
(* goes on with the listing; the run does not fail.                        *)
(***************************************************************************)
C21_EntryErrorSkipsEntry ==
    [][(pc = "entries" /\ pc' # "interrupted" /\ stats'.errors # stats.errors)
           => /\ stats' = [stats EXCEPT !.errors = @ + 1]
              /\ \E e \in listing : listing' = listing \ {e}
              /\ stack' = stack
              /\ batch' = batch
              /\ emitted' = emitted
              /\ docs' = docs
              /\ root_i' = root_i
              /\ pc' = "entries"]_vars

\* A run met one OSError, on an entry that is neither s nor a directory that
\* was then not read: the nested c.p and d.t of the second root were still
\* emitted and stored, and the run is done.
C21_Witness ==
    /\ pc = "done"
    /\ stats.errors = 1
    /\ stats.files_scanned = 2
    /\ \E r \in emitted : r.path = PathJoin(PathJoin(P_data, N_sub), N_c) /\ r \in docs
    /\ \E r \in emitted : r.path = PathJoin(P_mnt, N_d) /\ r \in docs
    /\ \E n \in fs : n.name = N_a /\ ~Unstable(scan_id, n.mtime)

(***************************************************************************)
(* C22.  When os.scandir of a popped directory raises, errors grows by one *)
(* and only that directory is given up: it leaves the stack, the           *)
(* directories below it on the stack stay there to be scanned, no listing  *)
(* is read, nothing is emitted or stored, and the scan of the same root    *)
(* goes on; the run does not fail.                                         *)
(***************************************************************************)
C22_DirErrorAbandonsDir ==
    [][(pc = "walk" /\ pc' # "interrupted" /\ stats'.errors # stats.errors)
           => /\ stats' = [stats EXCEPT !.errors = @ + 1]
              /\ Len(stack) > 0
              /\ stack' = SubSeq(stack, 1, Len(stack) - 1)
              /\ listing' = listing
              /\ batch' = batch
              /\ emitted' = emitted
              /\ docs' = docs
              /\ root_i' = root_i
              /\ pc' = "walk"]_vars

\* os.scandir of the root /d failed: one error is counted, a.t (present and
\* stable) gave no record and the excluded b.l was not even counted as skipped;
\* the second root was still scanned, d.t emitted and stored, and the run is done.
C22_Witness ==
    /\ pc = "done"
    /\ stats.errors = 1
    /\ stats.files_scanned = 1
    /\ stats.files_skipped = 0
    /\ \E r \in emitted : r.path = PathJoin(P_mnt, N_d) /\ r \in docs
    /\ \E n \in fs : n.name = N_a /\ ~Unstable(scan_id, n.mtime)
    /\ \E n \in fs : n.name = N_b
    /\ \E n \in fs : n.name = N_sub

\* The configured roots that are not on disk.
MissingRoots == { i \in 1..Len(scan_roots) : StatOf(fs, scan_roots[i]) = {} }

(***************************************************************************)
(* C23.  A configured root that does not exist gives no record and no      *)
(* error: run() passes to the next root with counters, batch and table     *)
(* untouched.  The roots that do exist, before or after it in the list,    *)
(* are scanned in the same run: when a run without OSError and without     *)
(* filesystem change is done, every stable indexable file of an existing   *)
(* root has its document, stamped by this run, and nothing was emitted     *)
(* for the missing root.                                                   *)
(***************************************************************************)
C23_MissingRootSkipped ==
    /\ [][(/\ pc = "root" /\ root_i \in MissingRoots
           /\ pc' # "interrupted" /\ clock' = clock)
              => /\ root_i' = root_i + 1
                 /\ pc' = "root"
                 /\ stats' = stats
                 /\ batch' = batch
                 /\ emitted' = emitted
                 /\ docs' = docs]_vars
    /\ []((pc = "done" /\ quiet_runs >= 1 /\ stats.errors = 0 /\ MissingRoots # {})
             => /\ \A i \in MissingRoots : EmittedUnder(scan_roots[i]) = {}
                /\ \A n \in LiveFiles :
                       ~Unstable(scan_id, n.mtime)
                       => \E d \in RootDocs(docs) :
                              d.path = NodePath(n) /\ d.seen_at = scan_id)

\* The first root is missing, no error was counted, and the file of the second
\* root has its document of this run.
C23_Witness ==
    /\ pc = "done"
    /\ quiet_runs >= 1
    /\ stats.errors = 0
    /\ MissingRoots = {1}
    /\ stats.files_scanned = 1
    /\ \E d \in RootDocs(docs) : d.path = PathJoin(P_mnt, N_d) /\ d.seen_at = scan_id

\* The paths of the symbolic links on disk.
LinkPaths == { NodePath(n) : n \in { m \in fs : m.kind = "link" } }

(***************************************************************************)
(* C24.  A symbolic link is never on the stack and never in an emitted     *)
(* record.  The stack holds only the root being scanned and directories    *)
(* below it, each once, and none whose entries have already been listed    *)
(* or emitted: no directory is visited twice and the scan stays within     *)
(* the root.                                                               *)
(***************************************************************************)
C24_LinksNotFollowed ==
    /\ \A k \in 1..Len(stack) : stack[k] \notin LinkPaths
    /\ \A r \in emitted : r.path \notin LinkPaths
    /\ \A i \in 1..Len(pending) : pending[i].path \notin LinkPaths
    /\ pc \in {"walk", "entries", "flush"} =>
           \A k \in 1..Len(stack) :
               /\ stack[k] = scan_roots[root_i] \/ IsUnder(stack[k], scan_roots[root_i])
               /\ \E n \in fs : n.kind = "dir" /\ NodePath(n) = stack[k]
               /\ \A j \in 1..Len(stack) : stack[j] = stack[k] => j = k
               /\ \A e \in listing : ~IsUnder(e.path, stack[k])
               /\ \A r \in emitted : ~IsUnder(r.path, stack[k])

\* The entries of /m, the link k among them, were all visited without error:
\* d.t was emitted, nothing for k, and the stack is empty.
C24_Witness ==
    /\ pc = "walk" /\ stack = <<>> /\ listing = {}
    /\ scan_roots[root_i] = P_mnt
    /\ stats.errors = 0
    /\ quiet_runs >= 1
    /\ PathJoin(P_mnt, N_link) \in LinkPaths
    /\ \E r \in emitted : r.path = PathJoin(P_mnt, N_d)
    /\ \A r \in emitted : r.path # PathJoin(P_mnt, N_link)

(***************************************************************************)
(* run() called again on the same indexer object: a caller other than      *)
(* main() keeps the object after run() has returned and calls run() once   *)
(* more.  self.stats is the dictionary __init__ built.                     *)
(***************************************************************************)
RunAgain ==
    /\ pc = "done"
    /\ stats.files_scanned + stats.files_skipped < MaxCounted
    /\ scan_id' = NewScanId(clock)
    /\ prev_scan_id' = scan_id
    /\ batch' = <<>>
    /\ root_i' = 1
    /\ docs0' = docs
    /\ quiet_runs' = IF quiet_runs = 0 THEN 1 ELSE 2
    /\ pc' = "root"
    /\ pending' = <<>>
    /\ sent' = <<>>
    /\ emitted' = {}
    /\ UNCHANGED <<clock, fs, envSteps, docs, stats, stack, now, listing, attempt,
                   schema_ok, prev_end, peer, probe, task>>
    /\ calls' = ResetCount(calls)

RerunInit == Init /\ fs = DataTree

RerunNext ==
    \/ Tick
    \/ Main
    \/ Run
    \/ RunAgain
    \/ ScanRoot
    \/ PopDir
    \/ EndRoot
    \/ ScanEntry
    \/ EndDir
    \/ EndScan
    \/ UpsertAttempt
    \/ SweepAttempt
    \/ Exit

SpecRerun == RerunInit /\ [][RerunNext]_vars

\* The sum of the sizes in a sequence of batch sizes.
RECURSIVE SumOf(_)
SumOf(q) == IF Len(q) = 0 THEN 0 ELSE Head(q) + SumOf(Tail(q))

(***************************************************************************)
(* C25.  The counters belong to one run: when a run starts, files_scanned, *)
(* files_indexed, files_skipped, files_deleted and errors are zero, also   *)
(* when run() is called again on the same object, and the summary of a     *)
(* run that is done counts the records emitted and the records             *)
(* acknowledged in that run alone.                                         *)
(***************************************************************************)
C25_StatsPerRun ==
    /\ [][(pc \in {"ready", "done"} /\ pc' = "root")
              => /\ stats'.files_scanned = 0
                 /\ stats'.files_indexed = 0
                 /\ stats'.files_skipped = 0
                 /\ stats'.files_deleted = 0
                 /\ stats'.errors = 0]_vars
    /\ [](pc = "done" => /\ stats.files_scanned = Cardinality(emitted)
                         /\ stats.files_indexed = SumOf(sent))

\* The other half of C25: start_time is the time at which the run starts.
C25_StartTimeIsRunStart ==
    [][(pc \in {"ready", "done"} /\ pc' = "root") => stats'.start_time = clock']_vars

\* What does hold: a run started by main() on a fresh object starts with the
\* counters at zero, and its start_time is the time of construction, not later
\* than the start of the run.
C25_FreshObjectStartsAtZero ==
    [][(pc = "ready" /\ pc' = "root")
           => /\ stats' = ZeroStats(stats.start_time)
              /\ stats'.start_time <= clock']_vars

(***************************************************************************)
(* C26.  Construction completes whether the schema call succeeded or not,  *)
(* and run() can start after it.  A process whose schema call failed fails *)
(* only where any process fails: at an upsert or at the sweep, when its    *)
(* last attempt fails.                                                     *)
(***************************************************************************)
C26_SchemaFailureNotFatal ==
    /\ [][(pc = "idle" /\ pc' # "idle") => pc' = "ready"]_vars
    /\ [](pc = "ready" => ENABLED Run)
    /\ [][(~schema_ok /\ pc # "error" /\ pc' = "error")
              => /\ pc \in {"flush", "final", "sweep"}
                 /\ StopAfterAttempt(attempt + 1)]_vars

\* The schema call failed, the run started and scanned files all the same, and
\* the process failed later, at an engine call.
C26_Witness ==
    /\ ~schema_ok
    /\ pc = "error"
    /\ stats.files_scanned >= 1

(***************************************************************************)
(* wait_for_task of the bootstrap script on its own.  Time is counted in   *)
(* half seconds; a request takes no time.                                  *)
(***************************************************************************)
\* What one poll of the task status gives: a status, or an exception.
PollAnswers == {"enqueued", "processing", "succeeded", "failed", "raise"}

\* if status == "succeeded": return True / elif status == "failed": return False
\* ("none": the loop goes on).
WaitResult(status) ==
    IF status = "succeeded" THEN "True"
    ELSE IF status = "failed" THEN "False"
    ELSE "none"

\* time.sleep(0.5) after a poll that does not end the wait, time.sleep(1) after
\* an exception.
SleepAfter(status) ==
    IF status = "raise" THEN 2
    ELSE IF WaitResult(status) = "none" THEN 1
    ELSE 0

WaitInit ==
    /\ clock = StabilitySec
    /\ fs = DataTree
    /\ envSteps = 0
    /\ docs = {}
    /\ pc = "idle"
    /\ stats = ZeroStats(0)
    /\ scan_id = 0
    /\ root_i = 1
    /\ batch = <<>>
    /\ stack = <<>>
    /\ now = 0
    /\ listing = {}
    /\ attempt = 0
    /\ pending = <<>>
    /\ sent = <<>>
    /\ prev_scan_id = 0
    /\ docs0 = {}
    /\ quiet_runs = 0
    /\ schema_ok = TRUE
    /\ emitted = {}
    /\ prev_end = "none"
    /\ peer = IdleContext
    /\ probe = NoProbe
    /\ task = NoTask
    /\ calls = NoCount

\* One turn of "while time.time() - start < timeout": a poll and what follows it.
PollTask ==
    /\ task.out = "none"
    /\ task.elapsed < WaitTimeout
    /\ \E a \in PollAnswers :
           task' = [polls |-> Append(task.polls, a),
                    elapsed |-> task.elapsed + SleepAfter(a),
                    out |-> WaitResult(a)]
    /\ UNCHANGED <<clock, fs, envSteps, docs, pc, stats, scan_id, root_i, batch,
                   stack, now, listing, attempt, pending, sent, prev_scan_id,
                   docs0, quiet_runs, schema_ok, emitted, prev_end, peer, probe,
                   calls>>

\* The loop condition fails: "timed out", return False.
TaskTimedOut ==
    /\ task.out = "none"
    /\ task.elapsed >= WaitTimeout
    /\ task' = [task EXCEPT !.out = "False"]
    /\ UNCHANGED <<clock, fs, envSteps, docs, pc, stats, scan_id, root_i, batch,
                   stack, now, listing, attempt, pending, sent, prev_scan_id,
                   docs0, quiet_runs, schema_ok, emitted, prev_end, peer, probe,
                   calls>>

WaitNext == PollTask \/ TaskTimedOut

SpecWait == WaitInit /\ [][WaitNext]_vars

\* The status the last poll gave ("none" before the first poll).
LastPoll == IF Len(task.polls) = 0 THEN "none" ELSE task.polls[Len(task.polls)]

(***************************************************************************)
(* C27.  wait_for_task polls until the task reports success or failure or  *)
(* the timeout elapses, and what it returns tells the three cases apart:   *)
(* one value exactly when the task succeeded, another exactly when the     *)
(* task reported failure, and neither of the two when the time ran out.    *)
(* A task that answers enqueued, processing, succeeded gives success after *)
(* exactly three polls.                                                    *)
(***************************************************************************)
C27_WaitTriState ==
    /\ task.out = "True" <=> LastPoll = "succeeded"
    /\ task.out = "False" <=> LastPoll = "failed"
    /\ task.polls = <<"enqueued", "processing", "succeeded">> => task.out = "True"

\* What holds of wait_for_task: it polls while nothing is decided and time is
\* left; True exactly after a poll that says succeeded; False after a poll that
\* says failed and also when the timeout elapsed without either; the task that
\* answers enqueued, processing, succeeded gives True at the third poll.
C27_WaitTwoState ==
    /\ task.out = "True" <=> LastPoll = "succeeded"
    /\ LastPoll = "failed" => task.out = "False"
    /\ task.out = "False" =>
           \/ LastPoll = "failed"
           \/ /\ task.elapsed >= WaitTimeout
              /\ LastPoll \notin {"succeeded", "failed"}
    /\ task.out = "none" => LastPoll \notin {"succeeded", "failed"}
    /\ \A i \in 1..(Len(task.polls) - 1) : task.polls[i] \notin {"succeeded", "failed"}
    /\ task.polls = <<"enqueued", "processing", "succeeded">>
           => (task.out = "True" /\ Len(task.polls) = 3)

(***************************************************************************)
(* Termination of run().  The tree is finite and does not change, nobody   *)
(* interrupts, and every engine call returns: requests.post carries a      *)
(* timeout and the wait between two attempts is at most 10 seconds, so the *)
(* interpreter always takes the next step of run().  The requests of the   *)
(* run are counted in calls.                                               *)
(***************************************************************************)
LiveInit ==
    /\ clock = StabilitySec
    /\ fs = DataTree \cup MntTree
    /\ envSteps = 0
    /\ docs = {}
    /\ pc = "idle"
    /\ stats = ZeroStats(0)
    /\ scan_id = 0
    /\ root_i = 1
    /\ batch = <<>>
    /\ stack = <<>>
    /\ now = 0
    /\ listing = {}
    /\ attempt = 0
    /\ pending = <<>>
    /\ sent = <<>>
    /\ prev_scan_id = 0
    /\ docs0 = {}
    /\ quiet_runs = 0
    /\ schema_ok = TRUE
    /\ emitted = {}
    /\ prev_end = "none"
    /\ peer = IdleContext
    /\ probe = NoProbe
    /\ task = NoTask
    /\ calls = 0

\* The next step of run(), whichever it is.
RunStep ==
    \/ ScanRoot
    \/ PopDir
    \/ EndRoot
    \/ ScanEntry
    \/ EndDir
    \/ EndScan
    \/ UpsertAttempt
    \/ SweepAttempt

LiveNext ==
    \/ Tick
    \/ Main
    \/ Run
    \/ ScanRoot
    \/ PopDir
    \/ EndRoot
    \/ ScanEntry
    \/ EndDir
    \/ EndScan
    \/ UpsertAttempt
    \/ SweepAttempt
    \/ Exit

SpecLive == LiveInit /\ [][LiveNext]_vars /\ WF_vars(RunStep)

\* C28: over a finite tree every run reaches DONE or ERROR whatever the engine
\* answers, and it sends at most 3 requests for each batch and 3 for the sweep:
\* with k batches acknowledged so far the upsert and delete requests of the run
\* number at most 3k + 3.
C28_RunTerminates ==
    /\ (pc \in Active) ~> (pc \in {"done", "error"})
    /\ [](pc \in Active \cup {"done", "error"}
              => calls <= MaxAttempts * (Len(sent) + 1))

\* A run of two batches, each acknowledged at the third attempt, whose sweep is
\* acknowledged at the third attempt as well: 3 * 2 + 3 requests.
C28_Witness ==
    /\ pc = "done"
    /\ Len(sent) = 2
    /\ calls = MaxAttempts * 3

(***************************************************************************)
(* Fatal engine errors: the last failed attempt of an upsert or of the     *)
(* sweep raises out of run() into main().                                  *)
(***************************************************************************)
\* The step in which the retries of an engine call are exhausted.
FatalEngineError ==
    /\ pc \in {"flush", "final", "sweep"}
    /\ pc' = "error"

\* C29: a fatal engine error (an upsert or sweep whose retries are exhausted)
\* is counted: the errors counter of the run is incremented before the run
\* aborts with a non-zero exit status.
C29_FatalErrorCounted ==
    [][FatalEngineError =>
          /\ stats'.errors = stats.errors + 1
          /\ ExitStatus(pc') # 0]_vars

\* What the code does at a fatal engine error: the process exits non-zero and
\* no counter moves.
C29_FatalErrorExitsNonZero ==
    [][FatalEngineError =>
          /\ stats' = stats
          /\ ExitStatus(pc') = 1]_vars

(***************************************************************************)
(* A file indexed by an earlier pass and modified within the stability     *)
(* window: the pass skips it, and the sweep filters by seen_at alone.      *)
(***************************************************************************)
\* d is a document the table held when the run started, n the file on disk it
\* belongs to; the run met no OSError and has not emitted n, and n is still
\* within the window.
SkippedAsUnstable(d, n) ==
    /\ stats.errors = 0
    /\ d \in RootDocs(docs0)
    /\ n \in LiveWithId(d.id)
    /\ Unstable(clock, n.mtime)
    /\ d.id \notin Ids(emitted)

\* The step in which the engine acknowledges the DELETE of the sweep.
SweepAcknowledged ==
    /\ pc = "sweep"
    /\ pc' = "done"

\* C30: a file that was indexed in an earlier pass and is modified within the
\* stability window before pass N is skipped in pass N, keeps its old seen_at,
\* and its document is deleted by the sweep of pass N although the file still
\* exists.
C30_UnstableFileSwept ==
    [][SweepAcknowledged =>
          \A d \in docs0 : \A n \in fs :
              SkippedAsUnstable(d, n) => d.id \notin Ids(docs')]_vars

\* The same with the old seen_at smaller than the identifier of pass N.
C30_UnstableFileSweptIfOlder ==
    [][SweepAcknowledged =>
          \A d \in docs0 : \A n \in fs :
              (SkippedAsUnstable(d, n) /\ d.seen_at < scan_id)
              => d.id \notin Ids(docs')]_vars

\* Until the sweep is sent, the document of a file the pass has not emitted is
\* the one the earlier pass wrote, old seen_at included.
C30_SkippedKeepsSeenAt ==
    (pc \in {"root", "walk", "entries", "flush", "final"}
        \/ (pc = "sweep" /\ attempt = 0))
    => \A d \in RootDocs(docs0) : d.id \notin Ids(emitted) => d \in docs

\* Pass N is over, an unstable file lost its document and is still on disk.
C30_Swept ==
    /\ pc = "done"
    /\ \E d \in docs0 : \E n \in fs :
           /\ SkippedAsUnstable(d, n)
           /\ d.seen_at < scan_id
           /\ d.id \notin Ids(docs)

\* Pass N is over, an unstable file kept its document: pass N has the scan
\* identifier of the pass that wrote it.
C30_NotSwept ==
    /\ pc = "done"
    /\ \E d \in docs0 : \E n \in fs :
           /\ SkippedAsUnstable(d, n)
           /\ d.seen_at = scan_id
           /\ d \in docs

(***************************************************************************)
(* The sweep of a run, and the run whose scan yielded no record: every     *)
(* root missing, unreadable, or holding nothing to index.                  *)
(***************************************************************************)
\* The step in which run() calls _sweep_deletions.
SweepCalled ==
    /\ pc # "sweep"
    /\ pc' = "sweep"

\* The step that leaves the scan after the last root, uninterrupted.
ScanOver ==
    /\ pc = "root"
    /\ root_i > Len(scan_roots)
    /\ pc' \notin {pc, "interrupted"}

\* C31 as claimed: a run whose scan produced zero records makes no upsert call,
\* the sweep is issued, and the run completes successfully.
C31_EmptyRunCompletes ==
    [][(pc = "sweep" /\ emitted = {} /\ pc' \notin {pc, "interrupted"})
           => (pc' = "done" /\ sent = <<>>)]_vars

\* C31, amended: run() calls _sweep_deletions exactly once in every run that
\* is not interrupted and has no upsert failure, also when the scan produced
\* zero records: the call follows the last root when nothing is left to flush
\* and the acknowledged final flush otherwise, and after it the run only ends.
\* A run without records never enters a flush and acknowledges no batch.  When
\* the engine acknowledges the DELETE, no document of the root name with
\* seen_at below the identifier of the run is left, the others are kept, and
\* the run is DONE; the run ends in ERROR instead only when the third attempt
\* of the sweep fails.
C31_SweepOncePerRun ==
    /\ [][SweepCalled =>
              \/ (ScanOver /\ batch = <<>>)
              \/ (pc = "final" /\ Len(sent') = Len(sent) + 1)]_vars
    /\ [][ScanOver => pc' = (IF batch = <<>> THEN "sweep" ELSE "final")]_vars
    /\ [][pc = "sweep" => pc' \in {"sweep", "done", "error", "interrupted"}]_vars
    /\ [][pc' = "done" => pc = "sweep"]_vars
    /\ []((pc \in Active \cup {"done"} /\ emitted = {})
              => /\ pc \notin {"flush", "final"}
                 /\ sent = <<>>
                 /\ stats.files_indexed = 0)
    /\ [][SweepAcknowledged =>
              /\ RootDocs(docs') = { d \in RootDocs(docs) : d.seen_at >= scan_id }
              /\ docs' \ RootDocs(docs') = docs \ RootDocs(docs)]_vars
    /\ [][(pc = "sweep" /\ pc' = "error") => attempt = MaxAttempts - 1]_vars

\* A run is done that found one root missing and the other unreadable: no record,
\* no batch, and the documents an earlier run had written are deleted.
C31_Witness ==
    /\ pc = "done"
    /\ emitted = {}
    /\ sent = <<>>
    /\ stats.files_scanned = 0
    /\ stats.errors = 1
    /\ MissingRoots # {}
    /\ RootDocs(docs0) # {}
    /\ RootDocs(docs) = {}

(***************************************************************************)
(* The counters of a first run on a fresh indexer against its batch.       *)
(***************************************************************************)
\* The run is under way or complete: no upsert failure raised, no interrupt.
BeforeFailure == pc \in Active \cup {"done"}

\* The step in which an upsert is acknowledged.
UpsertAcknowledged ==
    /\ pc \in {"flush", "final"}
    /\ Len(sent') = Len(sent) + 1

\* C32 as claimed: before an upsert failure files_scanned equals files_indexed
\* plus the number of records in the in-memory batch, and the batch never holds
\* more than batch size records.
C32_ScannedIsIndexedPlusBatch ==
    /\ BatchSize >= 1
    /\ Len(batch) <= BatchSize
    /\ BeforeFailure => stats.files_scanned = stats.files_indexed + Len(batch)

\* C32, amended: in a first run on a fresh indexer, before an upsert failure,
\* files_scanned equals files_indexed plus the number of records in the batch
\* up to the acknowledgement of the final flush; from then on files_scanned
\* equals files_indexed, while the list of the final flush, which run() does
\* not clear, still holds its records.  The batch never holds more than batch
\* size records, and files_indexed grows by the length of a batch exactly once
\* per batch, at its acknowledgement, however many attempts the upsert took:
\* it is the sum of the lengths of the acknowledged batches.
C32_CountersAndBatch ==
    /\ [](BatchSize >= 1 /\ Len(batch) <= BatchSize)
    /\ [](pc \in {"root", "walk", "entries", "flush", "final"}
              => stats.files_scanned = stats.files_indexed + Len(batch))
    /\ [](pc \in {"sweep", "done"}
              => stats.files_scanned = stats.files_indexed)
    /\ [](BeforeFailure => stats.files_indexed = SumOf(sent))
    /\ [][(pc \in Active /\ stats'.files_indexed # stats.files_indexed)
              => /\ UpsertAcknowledged
                 /\ Len(batch) >= 1
                 /\ stats'.files_indexed = stats.files_indexed + Len(batch)
                 /\ pc' \notin {"flush", "final"}]_vars
    /\ [][(pc \in {"flush", "final"} /\ ~UpsertAcknowledged)
              => stats'.files_indexed = stats.files_indexed]_vars

\* The final flush of one record was acknowledged, after a full batch: every
\* file scanned is indexed and the list of the final flush is not cleared.
C32_Witness ==
    /\ pc = "sweep"
    /\ sent = <<BatchSize, 1>>
    /\ Len(batch) = 1
    /\ stats.files_scanned = BatchSize + 1
    /\ stats.files_indexed = BatchSize + 1
    /\ \E r \in emitted : r \in docs /\ r = batch[1]
=============================================================================
